---- MODULE Spec2Model ----
(***************************************************************************)
(* lazyk8s: the K8sClient wrapper (src/lazyk8s/k8s_client.py) and the      *)
(* Textual application LazyK8sApp (src/lazyk8s/gui.py) as a state machine. *)
(*                                                                         *)
(* Python values are modelled as follows.                                  *)
(*   - None is the string "None" where a str is optional, and the record   *)
(*     NonePod where a V1Pod is optional.                                  *)
(*   - A text that the code searches or splits (a namespace name, a query, *)
(*     a log) is a sequence of one-character strings; other names (pods,   *)
(*     containers, panels) are atoms.                                      *)
(*   - A call of the Kubernetes API either returns a value or raises       *)
(*     ApiException, the class the wrapper's handlers name; a response is  *)
(*     the record [ok, ...].                                               *)
(*   - Every handler of the application runs to completion on the event    *)
(*     loop; action_open_shell blocks inside it, which pc records.         *)
(***************************************************************************)
EXTENDS Naturals, Sequences, FiniteSets, TLC

VARIABLES
    namespace,          \* K8sClient.namespace
    namespace_list,     \* K8sClient._namespace_list
    fault,              \* exception that left a K8sClient method, or None
    pods,               \* LazyK8sApp.pods
    pods_ns,            \* the namespace get_pods listed for self.pods
    selected_pod,       \* LazyK8sApp.selected_pod (a V1Pod object or None)
    selected_container, \* LazyK8sApp.selected_container
    current_namespace,  \* LazyK8sApp.current_namespace
    pods_list,          \* ListView #pods-list: the PodItems
    containers_list,    \* ListView #containers-list: the ContainerItems
    info_panel,         \* Static #info-panel
    logs_panel,         \* RichLog #logs-panel: the lines written
    status_bar,         \* StatusBar #status-bar
    pc,                 \* position of the program: construction, idle event loop, inside action_open_shell
    shell_index,        \* action_open_shell: how many shells the loop has tried
    shell_result,       \* action_open_shell: what the last subprocess.run did
    shell_target,       \* action_open_shell: namespace, pod_name, container
    shell_started,      \* action_open_shell: some subprocess.run of the loop ran a shell
    terminal,           \* action_open_shell: what the handler has printed on the suspended screen
    last_op,            \* the handler that ran last (or is running)
    recomputed,         \* the panels that handler has rewritten
    calls,              \* the gateway calls that handler has made
    status_pod,         \* get_pod_status: the pod given
    status_out,         \* get_pod_status: the summary returned
    raw_log,            \* show_pod_logs: the text get_pod_logs returned
    search,             \* fuzzy_search_namespaces: the query
    found               \* fuzzy_search_namespaces: the list returned

clientVars == <<namespace, namespace_list, fault>>
appVars == <<pods, pods_ns, selected_pod, selected_container, current_namespace>>
panelVars == <<pods_list, containers_list, info_panel, logs_panel, status_bar>>
shellVars == <<pc, shell_index, shell_result, shell_target, shell_started, terminal>>
traceVars == <<last_op, recomputed, calls>>
statusVars == <<status_pod, status_out>>
filterVars == <<search, found>>
vars == <<clientVars, appVars, panelVars, shellVars, traceVars, statusVars, raw_log, filterVars>>

---------------------------------------------------------------------------
(* Bounds of the model *)

\* longest pod list the cluster returns
MaxPods == 2
\* most container statuses a pod reports
MaxStatuses == 2
\* highest restart count of one container
MaxRestarts == 1
\* most pieces a log text is put together from
MaxChunks == 5
\* longest namespace list the cluster returns
MaxNamespaces == 3

---------------------------------------------------------------------------
(* Values *)

None == "None"

\* the exception class the wrapper catches around its API calls
ApiException == "ApiException"


NsDefault == <<"d", "e", "f", "a", "u", "l", "t">>
NsStaging == <<"s", "t", "a", "g", "i", "n", "g">>
NsKubeSystem == <<"k", "u", "b", "e", "-", "s", "y", "s", "t", "e", "m">>
NsProdEu == <<"p", "r", "o", "d", "-", "e", "u">>

Namespaces == {NsDefault, NsStaging}

Range(s) == {s[i] : i \in 1..Len(s)}

NoRepeat(s) == \A i, j \in 1..Len(s) : i # j => s[i] # s[j]

\* the sequences over S of length at most n
RECURSIVE SeqsUpTo(_, _)
SeqsUpTo(S, n) ==
    IF n = 0 THEN {<<>>}
    ELSE LET shorter == SeqsUpTo(S, n - 1)
         IN shorter \cup {Append(s, x) : s \in shorter, x \in S}

\* a V1Pod as far as the application reads it: metadata.name and spec.containers
\* (the containers in declared order)
NonePod == [name |-> None, containers |-> <<>>]

\* the pods the cluster can hold: db-0, which declares no container, and web-1,
\* which is deployed with or without its app container
PodRecords ==
    {[name |-> "db-0", containers |-> <<>>],
     [name |-> "web-1", containers |-> <<"sidecar">>],
     [name |-> "web-1", containers |-> <<"app", "sidecar">>]}

\* the order in which the API lists names
NameOrder == <<"db-0", "web-1">>
Before(a, b) ==
    \E i, j \in 1..Len(NameOrder) : i < j /\ NameOrder[i] = a /\ NameOrder[j] = b

\* what list_namespaced_pod returns: the pods of one namespace have distinct names
\* and are listed in the order of their names
PodLists ==
    {l \in SeqsUpTo(PodRecords, MaxPods) :
        \A i, j \in 1..Len(l) : i < j => Before(l[i].name, l[j].name)}

\* a response of list_namespaced_pod: the items, or ApiException raised
PodListResponses ==
    {[ok |-> TRUE, items |-> l] : l \in PodLists} \cup {[ok |-> FALSE, items |-> <<>>]}

\* texts the application writes itself
MsgNoPodSelected ==
    <<"n", "o", " ", "p", "o", "d", " ", "s", "e", "l", "e", "c", "t", "e", "d">>
MsgNoContainers ==
    <<"n", "o", " ", "c", "o", "n", "t", "a", "i", "n", "e", "r", "s", " ",
      "f", "o", "u", "n", "d">>
ErrorPrefix == <<"E", "r", "r", "o", "r", ":", " ">>

\* a log text of the cluster, and str(e) of an ApiException: "({status})\nReason: ..."
LogTexts == {<<"u", "p", "\n", "W", "A", "R", "N">>}
ErrorTexts == {<<"(", "4", "0", "4", ")", "\n", "g", "o", "n", "e">>}

\* a response of read_namespaced_pod_log: the text, or ApiException raised with its text
LogResponses ==
    {[ok |-> TRUE, text |-> t] : t \in LogTexts}
        \cup {[ok |-> FALSE, text |-> t] : t \in ErrorTexts}

\* a response of list_namespace
NamespaceLists == {l \in SeqsUpTo(Namespaces, Cardinality(Namespaces)) : NoRepeat(l)}
NamespaceResponses ==
    {[ok |-> TRUE, items |-> l] : l \in NamespaceLists} \cup {[ok |-> FALSE, items |-> <<>>]}

\* a response of the version API: git_version, or any exception raised
ClusterInfoResponses == {[ok |-> TRUE, version |-> "v1.29"], [ok |-> FALSE, version |-> None]}

Panels == {"pods", "containers", "info", "logs"}

Call(fn, pod, container) == [fn |-> fn, pod |-> pod, container |-> container]

---------------------------------------------------------------------------
(* Python str operations *)

LowerCase == <<"a", "b", "c", "d", "e", "f", "g", "h", "i", "j", "k", "l", "m",
               "n", "o", "p", "q", "r", "s", "t", "u", "v", "w", "x", "y", "z">>
UpperCase == <<"A", "B", "C", "D", "E", "F", "G", "H", "I", "J", "K", "L", "M",
               "N", "O", "P", "Q", "R", "S", "T", "U", "V", "W", "X", "Y", "Z">>

\* the characters of the texts of this model that are not letters
OtherChars == {" ", "\n", "-", ":", "(", ")", "0", "4"}

Alphabet == Range(LowerCase) \cup Range(UpperCase) \cup OtherChars

\* str.upper, one character: a lower-case letter becomes the upper-case one
UpperChar ==
    [c \in Alphabet |->
        IF \E i \in 1..Len(LowerCase) : LowerCase[i] = c
        THEN UpperCase[CHOOSE i \in 1..Len(LowerCase) : LowerCase[i] = c]
        ELSE c]

\* str.lower, one character: an upper-case letter becomes the lower-case one
LowerChar ==
    [c \in Alphabet |->
        IF \E i \in 1..Len(UpperCase) : UpperCase[i] = c
        THEN LowerCase[CHOOSE i \in 1..Len(UpperCase) : UpperCase[i] = c]
        ELSE c]

\* str.upper
Upper(s) == [i \in 1..Len(s) |-> UpperChar[s[i]]]

\* str.lower
Lower(s) == [i \in 1..Len(s) |-> LowerChar[s[i]]]

\* `t in s` on str: t is a contiguous part of s
In(t, s) ==
    \E i \in 1..(Len(s) + 1) :
        /\ i + Len(t) - 1 <= Len(s)
        /\ \A j \in 1..Len(t) : s[i + j - 1] = t[j]

\* str.split("\n") from position i on, `part` being the part read so far
RECURSIVE SplitFrom(_, _, _)
SplitFrom(s, i, part) ==
    IF i > Len(s) THEN <<part>>
    ELSE IF s[i] = "\n" THEN <<part>> \o SplitFrom(s, i + 1, <<>>)
    ELSE SplitFrom(s, i + 1, Append(part, s[i]))

\* str.split("\n"): the parts between the line feeds, empty parts kept
Split(s) == SplitFrom(s, 1, <<>>)

---------------------------------------------------------------------------
(* K8sClient: the methods as functions of the API's response *)

\* get_pods: the items, [] when the API raised ApiException
get_pods(resp) == IF resp.ok THEN resp.items ELSE <<>>

\* get_pod_logs: the text, f"Error: {e}" when the API raised ApiException
get_pod_logs(resp) == IF resp.ok THEN resp.text ELSE ErrorPrefix \o resp.text

\* get_pod: the pod, None when the API raised ApiException
get_pod(resp) == IF resp.ok THEN resp.pod ELSE NonePod

\* delete_pod, delete_namespace: True, False when the API raised ApiException
delete_pod(resp) == resp.ok
delete_namespace(resp) == resp.ok

\* get_container_names: spec.containers in declared order
get_container_names(pod) == pod.containers

\* get_cluster_info: the version, "unknown" on any exception
get_cluster_info(resp) == IF resp.ok THEN resp.version ELSE "unknown"

---------------------------------------------------------------------------
(* LazyK8sApp: what each refresh method writes *)

PodItem(pod) == [pod |-> pod, label |-> pod.name]

ContainerItem(container_name) == [container_name |-> container_name]

\* refresh_pods, the list view: one PodItem per pod
PodItems(ps) == [i \in 1..Len(ps) |-> PodItem(ps[i])]

\* refresh_containers: the list view is cleared, then filled when a pod is selected
refresh_containers(sel) ==
    IF sel # NonePod
    THEN [i \in 1..Len(get_container_names(sel)) |-> ContainerItem(get_container_names(sel)[i])]
    ELSE <<>>

\* show_pod_info: the panel's text
show_pod_info(sel) ==
    IF sel = NonePod
    THEN [title |-> "no pod selected", containers |-> <<>>]
    ELSE [title |-> sel.name, containers |-> sel.containers]

LevelError == <<"E", "R", "R", "O", "R">>
LevelFatal == <<"F", "A", "T", "A", "L">>
LevelWarn == <<"W", "A", "R", "N">>
LevelWarning == <<"W", "A", "R", "N", "I", "N", "G">>

\* LineStyle with the levels looked for in the line as written, not in line.upper()
LineStyleCaseSensitive(line) ==
    IF In(LevelError, line) \/ In(LevelFatal, line) THEN "red"
    ELSE IF In(LevelWarn, line) \/ In(LevelWarning, line) THEN "yellow"
    ELSE "plain"

\* show_pod_logs, the colour of one line: any(level in line.upper() ...)
LineStyle(line) ==
    LET upper == Upper(line)
    IN IF In(LevelError, upper) \/ In(LevelFatal, upper) THEN "red"
       ELSE IF In(LevelWarn, upper) \/ In(LevelWarning, upper) THEN "yellow"
       ELSE "plain"

\* show_pod_logs, the loop over logs.split("\n"): `if line:` skips the empty parts
RECURSIVE WriteLines(_)
WriteLines(parts) ==
    IF parts = <<>> THEN <<>>
    ELSE (IF Head(parts) # <<>>
          THEN <<[style |-> LineStyle(Head(parts)), text |-> Head(parts)]>>
          ELSE <<>>) \o WriteLines(Tail(parts))

\* show_pod_logs, lines 337-346: what the panel holds for the text `logs`
WriteLogs(logs) == WriteLines(Split(logs))

\* LogContainer with `containers[0]` taken whatever container is selected
LogContainerFirstOnly(sel, selc) ==
    get_container_names(sel)[1]

\* show_pod_logs, line 330: the container whose logs are fetched
LogContainer(sel, selc) ==
    IF selc # None THEN selc ELSE get_container_names(sel)[1]

\* show_pod_logs without logs_panel.clear(): the lines are written after those shown
show_pod_logs_without_clear(sel, selc, resp) ==
    IF sel = NonePod
    THEN [lines |-> Append(logs_panel, [style |-> "dim", text |-> MsgNoPodSelected]),
          calls |-> {}]
    ELSE IF get_container_names(sel) = <<>>
    THEN [lines |-> Append(logs_panel, [style |-> "dim", text |-> MsgNoContainers]),
          calls |-> {}]
    ELSE [lines |-> logs_panel \o WriteLogs(get_pod_logs(resp)),
          calls |-> {Call("get_pod_logs", sel.name, LogContainer(sel, selc))}]

\* show_pod_logs, lines 331-346, for each response of the API: the text get_pod_logs
\* returns, written to the panel
WrittenLogs == [resp \in LogResponses |-> WriteLogs(get_pod_logs(resp))]

\* show_pod_logs: the panel is cleared, then written; `calls` are the gateway calls made
show_pod_logs(sel, selc, resp) ==
    IF sel = NonePod
    THEN [lines |-> <<[style |-> "dim", text |-> MsgNoPodSelected]>>, calls |-> {}]
    ELSE IF get_container_names(sel) = <<>>
    THEN [lines |-> <<[style |-> "dim", text |-> MsgNoContainers]>>, calls |-> {}]
    ELSE [lines |-> WrittenLogs[resp],
          calls |-> {Call("get_pod_logs", sel.name, LogContainer(sel, selc))}]

---------------------------------------------------------------------------
(* The dashboard: K8sClient and LazyK8sApp *)

NoNamespace == <<>>

\* the candidate shells of action_open_shell, in the order of the loop
Shells == <<"/bin/bash", "/bin/sh", "/bin/ash">>

\* what one subprocess.run of `kubectl exec -it ... -- shell` can do: raise (kubectl
\* cannot be run), return non-zero because the container has no such shell, or run
\* the shell, which the user leaves with status 0 or another status
ShellOutcomes ==
    {[raised |-> TRUE, started |-> FALSE],
     [raised |-> FALSE, started |-> FALSE, returncode |-> 126],
     [raised |-> FALSE, started |-> TRUE, returncode |-> 0],
     [raised |-> FALSE, started |-> TRUE, returncode |-> 1]}

\* no subprocess has run yet
NoOutcome == [raised |-> FALSE, started |-> FALSE, returncode |-> 0, none |-> TRUE]

\* action_open_shell, lines 399 and 415: the texts the handler prints
MsgOpeningShell == "Opening shell"
MsgPressEnter == "Press Enter to return to lazyk8s..."

\* no shell is open
NoTarget == [namespace |-> NoNamespace, pod |-> None, container |-> None]

pureVars == <<statusVars, raw_log, filterVars>>

\* no summary has been derived
NoStatus == [phase |-> None, ready |-> 0, total |-> 0, restarts |-> 0]

\* K8sClient.__init__ up to line 22 and the class attributes of LazyK8sApp, but for
\* the namespace list
DashboardInit ==
    /\ namespace = NsDefault
    /\ fault = None
    /\ pods = <<>>
    /\ pods_ns = NoNamespace
    /\ selected_pod = NonePod
    /\ selected_container = None
    /\ current_namespace = NsDefault
    /\ pods_list = <<>>
    /\ containers_list = <<>>
    /\ info_panel = [title |-> None, containers |-> <<>>]
    /\ logs_panel = <<>>
    /\ status_bar = [version |-> None, namespace |-> NoNamespace]
    /\ pc = "new"
    /\ shell_index = 0
    /\ shell_result = NoOutcome
    /\ shell_target = NoTarget
    /\ shell_started = FALSE
    /\ terminal = <<>>
    /\ last_op = None
    /\ recomputed = {}
    /\ calls = {}

Init ==
    /\ DashboardInit
    /\ namespace_list = <<>>
    /\ status_pod = None
    /\ status_out = NoStatus
    /\ raw_log = <<>>
    /\ search = <<>>
    /\ found = <<>>

\* K8sClient.__init__, lines 38-39, with _refresh_namespaces: the list is stored,
\* or ApiException is logged and raised again
K8sClientInit(resp) ==
    /\ pc = "new"
    /\ IF resp.ok
       THEN /\ namespace_list' = resp.items
            /\ fault' = None
            /\ pc' = "client"
       ELSE /\ namespace_list' = namespace_list
            /\ fault' = ApiException
            /\ pc' = "raised"
    /\ last_op' = "_refresh_namespaces"
    /\ recomputed' = {}
    /\ calls' = {Call("list_namespace", None, None)}
    /\ UNCHANGED <<namespace, appVars, panelVars, shell_index, shell_result, shell_target,
                   shell_started, terminal, pureVars>>

\* K8sClient.set_namespace
set_namespace(ns) ==
    /\ pc \in {"app", "idle"}
    /\ namespace' = ns
    /\ last_op' = "set_namespace"
    /\ recomputed' = {}
    /\ calls' = {}
    /\ UNCHANGED <<namespace_list, fault, appVars, panelVars, shellVars, pureVars>>

\* LazyK8sApp.__init__
AppInit ==
    /\ pc = "client"
    /\ pods' = <<>>
    /\ current_namespace' = namespace
    /\ pc' = "app"
    /\ last_op' = "__init__"
    /\ recomputed' = {}
    /\ calls' = {}
    /\ UNCHANGED <<clientVars, pods_ns, selected_pod, selected_container,
                   panelVars, shell_index, shell_result, shell_target,
                   shell_started, terminal, pureVars>>

\* refresh_status_bar
refresh_status_bar(info) == [version |-> get_cluster_info(info), namespace |-> namespace]

\* on_mount: refresh_status_bar, then refresh_pods
on_mount(info, listed) ==
    /\ pc = "app"
    /\ status_bar' = refresh_status_bar(info)
    /\ pods' = get_pods(listed)
    /\ pods_ns' = namespace
    /\ pods_list' = PodItems(pods')
    /\ pc' = "idle"
    /\ last_op' = "on_mount"
    /\ recomputed' = {"pods"}
    /\ calls' = {Call("get_cluster_info", None, None), Call("get_pods", None, None)}
    /\ UNCHANGED <<clientVars, selected_pod, selected_container, current_namespace,
                   containers_list, info_panel, logs_panel, shell_index, shell_result, shell_target,
                   shell_started, terminal,
                   pureVars>>

\* refresh_pods alone
RefreshPods(listed) ==
    /\ pods' = get_pods(listed)
    /\ pods_ns' = namespace
    /\ pods_list' = PodItems(pods')

\* on_pod_selected without `self.selected_container = None`
on_pod_selected_keeping_container(i, logs) ==
    /\ pc = "idle"
    /\ i \in 1..Len(pods_list)
    /\ selected_pod' = pods_list[i].pod
    /\ selected_container' = selected_container
    /\ containers_list' = refresh_containers(selected_pod')
    /\ info_panel' = show_pod_info(selected_pod')
    /\ LET shown == show_pod_logs(selected_pod', selected_container', logs)
       IN /\ logs_panel' = shown.lines
          /\ calls' = shown.calls
    /\ last_op' = "select_pod"
    /\ recomputed' = {"containers", "info", "logs"}
    /\ UNCHANGED <<clientVars, pods, pods_ns, current_namespace, pods_list, status_bar,
                   shellVars, pureVars>>

\* on_list_view_selected, #pods-list: item i of the list view is chosen
on_pod_selected(i, logs) ==
    /\ pc = "idle"
    /\ i \in 1..Len(pods_list)
    /\ selected_pod' = pods_list[i].pod
    /\ selected_container' = None
    /\ containers_list' = refresh_containers(selected_pod')
    /\ info_panel' = show_pod_info(selected_pod')
    /\ LET shown == show_pod_logs(selected_pod', selected_container', logs)
       IN /\ logs_panel' = shown.lines
          /\ calls' = shown.calls
    /\ last_op' = "select_pod"
    /\ recomputed' = {"containers", "info", "logs"}
    /\ UNCHANGED <<clientVars, pods, pods_ns, current_namespace, pods_list, status_bar,
                   shellVars, pureVars>>

\* on_list_view_selected, #containers-list: item i of the list view is chosen
on_container_selected(i, logs) ==
    /\ pc = "idle"
    /\ i \in 1..Len(containers_list)
    /\ selected_container' = containers_list[i].container_name
    /\ LET shown == show_pod_logs(selected_pod, selected_container', logs)
       IN /\ logs_panel' = shown.lines
          /\ calls' = shown.calls
    /\ last_op' = "select_container"
    /\ recomputed' = {"logs"}
    /\ UNCHANGED <<clientVars, pods, pods_ns, selected_pod, current_namespace, pods_list,
                   containers_list, info_panel, status_bar, shellVars, pureVars>>

\* action_refresh that drops the selected pod when the fetched list has no pod of its
\* name, and forgets the selected container
action_refresh_dropping_pod(listed, logs) ==
    /\ pc = "idle"
    /\ RefreshPods(listed)
    /\ selected_pod' = IF \E i \in 1..Len(pods') : pods'[i].name = selected_pod.name
                        THEN selected_pod ELSE NonePod
    /\ containers_list' = refresh_containers(selected_pod')
    /\ info_panel' = show_pod_info(selected_pod')
    /\ LET shown == show_pod_logs(selected_pod', selected_container, logs)
       IN /\ logs_panel' = shown.lines
          /\ calls' = {Call("get_pods", None, None)} \cup shown.calls
    /\ recomputed' = {"pods", "containers", "info", "logs"}
    /\ last_op' = "refresh"
    /\ UNCHANGED <<clientVars, selected_container, current_namespace,
                   status_bar, shellVars, pureVars>>

\* action_refresh: refresh_pods, and the three panels of a selected pod
action_refresh(listed, logs) ==
    /\ pc = "idle"
    /\ RefreshPods(listed)
    /\ IF selected_pod # NonePod
       THEN /\ containers_list' = refresh_containers(selected_pod)
            /\ info_panel' = show_pod_info(selected_pod)
            /\ LET shown == show_pod_logs(selected_pod, selected_container, logs)
               IN /\ logs_panel' = shown.lines
                  /\ calls' = {Call("get_pods", None, None)} \cup shown.calls
            /\ recomputed' = {"pods", "containers", "info", "logs"}
       ELSE /\ UNCHANGED <<containers_list, info_panel, logs_panel>>
            /\ recomputed' = {"pods"}
            /\ calls' = {Call("get_pods", None, None)}
    /\ last_op' = "refresh"
    /\ UNCHANGED <<clientVars, selected_pod, selected_container, current_namespace,
                   status_bar, shellVars, pureVars>>

\* action_change_namespace: refresh_status_bar only
action_change_namespace(info) ==
    /\ pc = "idle"
    /\ status_bar' = refresh_status_bar(info)
    /\ last_op' = "change_namespace"
    /\ recomputed' = {}
    /\ calls' = {Call("get_cluster_info", None, None)}
    /\ UNCHANGED <<clientVars, appVars, pods_list, containers_list, info_panel, logs_panel,
                   shellVars, pureVars>>

\* action_view_logs
action_view_logs(logs) ==
    /\ pc = "idle"
    /\ selected_pod # NonePod
    /\ LET shown == show_pod_logs(selected_pod, selected_container, logs)
       IN /\ logs_panel' = shown.lines
          /\ calls' = shown.calls
    /\ last_op' = "view_logs"
    /\ recomputed' = {"logs"}
    /\ UNCHANGED <<clientVars, appVars, pods_list, containers_list, info_panel, status_bar,
                   shellVars, pureVars>>

\* action_open_shell, lines 386-399: the early returns, the target, the TUI suspended
action_open_shell ==
    /\ pc = "idle"
    /\ selected_pod # NonePod
    /\ get_container_names(selected_pod) # <<>>
    /\ shell_target' = [namespace |-> namespace, pod |-> selected_pod.name,
                         container |-> LogContainer(selected_pod, selected_container)]
    /\ shell_index' = 0
    /\ shell_result' = NoOutcome
    /\ shell_started' = FALSE
    /\ terminal' = <<MsgOpeningShell>>
    /\ pc' = "shell"
    /\ last_op' = "open_shell"
    /\ recomputed' = {}
    /\ calls' = {}
    /\ UNCHANGED <<clientVars, appVars, panelVars, pureVars>>

\* action_open_shell, lines 410-413: the loop ends on return code 0; an exception
\* and any other return code go on to the next shell
ShellLoopBreaks(outcome) == ~outcome.raised /\ outcome.returncode = 0

\* action_open_shell, lines 401-413: one pass of the loop over the shells
shell_run(outcome) ==
    /\ pc = "shell"
    /\ shell_index < Len(Shells)
    /\ shell_index' = shell_index + 1
    /\ shell_result' = outcome
    /\ shell_started' = (shell_started \/ outcome.started)
    /\ pc' = IF ShellLoopBreaks(outcome) \/ shell_index' = Len(Shells)
             THEN "shell_exited" ELSE "shell"
    /\ terminal' = IF pc' = "shell_exited" THEN Append(terminal, MsgPressEnter) ELSE terminal
    /\ UNCHANGED <<clientVars, appVars, panelVars, shell_target, traceVars, pureVars>>

\* shell_return with lines 417-421 left out: the TUI resumes and nothing is refreshed
shell_return_without_refresh(listed, logs) ==
    /\ pc = "shell_exited"
    /\ pc' = "idle"
    /\ shell_index' = 0
    /\ shell_result' = NoOutcome
    /\ shell_target' = NoTarget
    /\ shell_started' = FALSE
    /\ terminal' = <<>>
    /\ UNCHANGED <<clientVars, appVars, panelVars, traceVars, pureVars>>

\* action_open_shell, lines 415-421: Enter is pressed, the TUI resumes and refreshes
shell_return(listed, logs) ==
    /\ pc = "shell_exited"
    /\ RefreshPods(listed)
    /\ IF selected_pod # NonePod
       THEN /\ info_panel' = show_pod_info(selected_pod)
            /\ LET shown == show_pod_logs(selected_pod, selected_container, logs)
               IN /\ logs_panel' = shown.lines
                  /\ calls' = {Call("get_pods", None, None)} \cup shown.calls
            /\ recomputed' = {"pods", "info", "logs"}
       ELSE /\ UNCHANGED <<info_panel, logs_panel>>
            /\ recomputed' = {"pods"}
            /\ calls' = {Call("get_pods", None, None)}
    /\ pc' = "idle"
    /\ shell_index' = 0
    /\ shell_result' = NoOutcome
    /\ shell_target' = NoTarget
    /\ shell_started' = FALSE
    /\ terminal' = <<>>
    /\ UNCHANGED <<clientVars, selected_pod, selected_container, current_namespace,
                   containers_list, status_bar, last_op, pureVars>>

Next ==
    \/ \E resp \in NamespaceResponses : K8sClientInit(resp)
    \/ \E ns \in Namespaces : set_namespace(ns)
    \/ AppInit
    \/ \E info \in ClusterInfoResponses, listed \in PodListResponses : on_mount(info, listed)
    \/ \E i \in 1..Len(pods_list), logs \in LogResponses : on_pod_selected(i, logs)
    \/ \E i \in 1..Len(containers_list), logs \in LogResponses : on_container_selected(i, logs)
    \/ \E listed \in PodListResponses, logs \in LogResponses : action_refresh(listed, logs)
    \/ \E info \in ClusterInfoResponses : action_change_namespace(info)
    \/ \E logs \in LogResponses : action_view_logs(logs)
    \/ action_open_shell
    \/ \E outcome \in ShellOutcomes : shell_run(outcome)
    \/ \E listed \in PodListResponses, logs \in LogResponses : shell_return(listed, logs)

Spec == Init /\ [][Next]_vars

---------------------------------------------------------------------------
(* get_pod_status, applied to every pod status of the bounded set *)

\* Python truth of an optional str: None and "" are false
Truthy(x) == x \notin {None, ""}

\* a V1ContainerStatus as get_pod_status reads it. `waiting` is state.waiting.reason
\* and `terminated` is state.terminated.reason, None also when the state itself is
\* None (the code tests both with one `and`); the API sets at most one of the states.
ContainerStatuses ==
    {cs \in [restart_count : 0..MaxRestarts, ready : BOOLEAN,
             waiting : {None, "", "CrashLoopBackOff"},
             terminated : {None, "", "OOMKilled"}] :
        cs.waiting = None \/ cs.terminated = None}

\* pod.status: phase, reason, container_statuses (None and [] are both <<>>)
PodStatuses ==
    [phase : {"Running", "Pending"}, reason : {None, "Evicted"},
     container_statuses : SeqsUpTo(ContainerStatuses, MaxStatuses)]

\* StatusStep with `restarts = cs.restart_count` in place of `restarts += cs.restart_count`
StatusStepLastRestarts(acc, cs) ==
    [restarts |-> cs.restart_count,
     ready |-> IF cs.ready THEN acc.ready + 1 ELSE acc.ready,
     phase |-> IF Truthy(cs.waiting) THEN cs.waiting
               ELSE IF Truthy(cs.terminated) THEN cs.terminated
               ELSE acc.phase]

\* get_pod_status, lines 138-145: one pass of the loop over the container statuses
StatusStep(acc, cs) ==
    [restarts |-> acc.restarts + cs.restart_count,
     ready |-> IF cs.ready THEN acc.ready + 1 ELSE acc.ready,
     phase |-> IF Truthy(cs.waiting) THEN cs.waiting
               ELSE IF Truthy(cs.terminated) THEN cs.terminated
               ELSE acc.phase]

\* get_pod_status, lines 137-145: the loop from status i on
RECURSIVE StatusLoop(_, _, _)
StatusLoop(statuses, i, acc) ==
    IF i > Len(statuses) THEN acc
    ELSE StatusLoop(statuses, i + 1, StatusStep(acc, statuses[i]))

\* get_pod_status with the loop run from the last status to the first, so that the
\* first container reason in list order wins
get_pod_status_first_wins(status) ==
    LET start == [restarts |-> 0, ready |-> 0,
                  phase |-> IF Truthy(status.reason) THEN status.reason ELSE status.phase]
        reversed == [i \in 1..Len(status.container_statuses) |->
                        status.container_statuses[Len(status.container_statuses) + 1 - i]]
        end == StatusLoop(reversed, 1, start)
    IN [phase |-> end.phase, ready |-> end.ready,
        total |-> Len(status.container_statuses), restarts |-> end.restarts]

\* get_pod_status: the four values the returned text
\* f"{phase} ({ready}/{total}) Restarts:{restarts}" is formatted from
get_pod_status(status) ==
    LET start == [restarts |-> 0, ready |-> 0,
                  phase |-> IF Truthy(status.reason) THEN status.reason ELSE status.phase]
        end == StatusLoop(status.container_statuses, 1, start)
    IN [phase |-> end.phase, ready |-> end.ready,
        total |-> Len(status.container_statuses), restarts |-> end.restarts]

dashboardVars == <<clientVars, appVars, panelVars, shellVars, recomputed, calls>>

InitStatus ==
    /\ DashboardInit
    /\ namespace_list = <<>>
    /\ status_pod \in PodStatuses
    /\ status_out = NoStatus
    /\ raw_log = <<>>
    /\ search = <<>>
    /\ found = <<>>

\* a call of get_pod_status on the pod
GetPodStatus ==
    /\ last_op = None
    /\ status_out' = get_pod_status(status_pod)
    /\ last_op' = "get_pod_status"
    /\ UNCHANGED <<dashboardVars, status_pod, raw_log, filterVars>>

NextStatus == GetPodStatus

SpecStatus == InitStatus /\ [][NextStatus]_vars

\* the container statuses of the pod that carry a non-empty waiting or terminated reason
WithReason ==
    {i \in 1..Len(status_pod.container_statuses) :
        \/ status_pod.container_statuses[i].waiting \notin {None, ""}
        \/ status_pod.container_statuses[i].terminated \notin {None, ""}}

\* the reason container status i carries
ReasonAt(i) ==
    IF status_pod.container_statuses[i].waiting \notin {None, ""}
    THEN status_pod.container_statuses[i].waiting
    ELSE status_pod.container_statuses[i].terminated

\* C8: when some container status carries a non-empty waiting or terminated reason,
\* the derived phase is the reason of the last such status in list order; otherwise
\* it is the pod's top-level reason if there is one, else the raw phase.
C8_PhaseIsLastContainerReason ==
    last_op = "get_pod_status" =>
        IF WithReason # {}
        THEN \E i \in WithReason :
                 /\ \A j \in WithReason : j <= i
                 /\ status_out.phase = ReasonAt(i)
        ELSE IF status_pod.reason # None
        THEN status_out.phase = status_pod.reason
        ELSE status_out.phase = status_pod.phase

\* C8 witness: two containers report different reasons, the pod has a top-level
\* reason, and the phase derived is the second container's reason.
C8_Witness ==
    /\ last_op = "get_pod_status"
    /\ Len(status_pod.container_statuses) = 2
    /\ WithReason = {1, 2}
    /\ ReasonAt(1) # ReasonAt(2)
    /\ status_pod.reason # None
    /\ status_out.phase = ReasonAt(2)

\* the restart counts of the first n container statuses of the pod, added up
RECURSIVE RestartsOfFirst(_)
RestartsOfFirst(n) ==
    IF n = 0 THEN 0
    ELSE RestartsOfFirst(n - 1) + status_pod.container_statuses[n].restart_count

\* C14: the derived ready count is at most the derived total, the total is the number
\* of container statuses (0 when none is reported), and the restart total is the sum
\* of the containers' restart counts.
C14_CountsOfContainerStatuses ==
    last_op = "get_pod_status" =>
        /\ status_out.ready <= status_out.total
        /\ status_out.total = Len(status_pod.container_statuses)
        /\ status_out.restarts = RestartsOfFirst(Len(status_pod.container_statuses))

\* C14 witness: two containers that have both restarted, one of them ready.
C14_Witness ==
    /\ last_op = "get_pod_status"
    /\ Len(status_pod.container_statuses) = 2
    /\ \A i \in 1..2 : status_pod.container_statuses[i].restart_count = 1
    /\ status_out = [phase |-> "Running", ready |-> 1, total |-> 2, restarts |-> 2]

---------------------------------------------------------------------------
(* show_pod_logs, lines 337-346, applied to every log text of the bounded set *)

\* the pieces the log texts are put together from
LogChunks ==
    {<<"\n">>,
     <<"o", "k">>,
     <<"e", "R", "R", "o", "r">>,
     <<"F", "A", "T", "A", "L">>,
     <<"W", "a", "r", "n">>,
     <<"W", "A", "R">>}

\* the texts of at most n pieces
RECURSIVE ChunkTexts(_)
ChunkTexts(n) ==
    IF n = 0 THEN {<<>>}
    ELSE LET shorter == ChunkTexts(n - 1)
         IN shorter \cup {t \o c : t \in shorter, c \in LogChunks}

RawLogs == ChunkTexts(MaxChunks)

InitLogs ==
    /\ DashboardInit
    /\ namespace_list = <<>>
    /\ raw_log \in RawLogs
    /\ status_pod = None
    /\ status_out = NoStatus
    /\ search = <<>>
    /\ found = <<>>

\* show_pod_logs from line 337 on, `logs` being the text get_pod_logs returned
WriteLogsPanel ==
    /\ last_op = None
    /\ logs_panel' = WriteLogs(raw_log)
    /\ last_op' = "show_pod_logs"
    /\ recomputed' = {"logs"}
    /\ UNCHANGED <<clientVars, appVars, pods_list, containers_list, info_panel, status_bar,
                   shellVars, calls, pureVars>>

NextLogs == WriteLogsPanel

SpecLogs == InitLogs /\ [][NextLogs]_vars

\* where the non-empty lines of the raw log start: at a character that is no line
\* feed and has the start of the text or a line feed before it
LineStarts ==
    {a \in 1..Len(raw_log) :
        /\ raw_log[a] # "\n"
        /\ a = 1 \/ raw_log[a - 1] = "\n"}

\* where the line that starts at a ends: before the next line feed or at the end
LineEnd(a) ==
    CHOOSE b \in a..Len(raw_log) :
        /\ \A i \in a..b : raw_log[i] # "\n"
        /\ b = Len(raw_log) \/ raw_log[b + 1] = "\n"

\* `token` occurs in `line`, letters compared without regard to case
OccursIgnoringCase(token, line) ==
    \E i \in 1..Len(line) :
        /\ i + Len(token) - 1 <= Len(line)
        /\ \A j \in 1..Len(token) :
               \/ line[i + j - 1] = token[j]
               \/ \E k \in 1..Len(LowerCase) :
                      {line[i + j - 1], token[j]} = {LowerCase[k], UpperCase[k]}

\* the severity the claim gives a line
Severity(line) ==
    IF OccursIgnoringCase(LevelError, line) \/ OccursIgnoringCase(LevelFatal, line)
    THEN "red"
    ELSE IF OccursIgnoringCase(LevelWarn, line) \/ OccursIgnoringCase(LevelWarning, line)
    THEN "yellow"
    ELSE "plain"

\* C9: the panel shows exactly the non-empty lines of the raw log, in their order,
\* each with the severity its own text gives it: error before warning before normal.
C9_OneStyledLinePerNonEmptyLine ==
    last_op = "show_pod_logs" =>
        /\ Len(logs_panel) = Cardinality(LineStarts)
        /\ \A a \in LineStarts :
               LET k == Cardinality({c \in LineStarts : c <= a})
                   line == SubSeq(raw_log, a, LineEnd(a))
               IN logs_panel[k] = [style |-> Severity(line), text |-> line]

\* C9 witness: a log with an empty line in it, whose two shown lines are an error (a
\* line holding an error and a warning token) and a warning.
C9_Witness ==
    /\ last_op = "show_pod_logs"
    /\ \E i \in 1..(Len(raw_log) - 1) : raw_log[i] = "\n" /\ raw_log[i + 1] = "\n"
    /\ Len(logs_panel) = 2
    /\ logs_panel[1].style = "red"
    /\ OccursIgnoringCase(LevelWarn, logs_panel[1].text)
    /\ logs_panel[2].style = "yellow"

---------------------------------------------------------------------------
(* fuzzy_search_namespaces, applied to every namespace list and query of the bounded sets *)

\* the namespaces the cluster can hold (names of namespaces are lower-case)
ClusterNamespaces == {NsDefault, NsKubeSystem, NsProdEu, NsStaging}

\* what list_namespace returns: names are distinct, the order is the API's
FetchedNamespaceLists == {l \in SeqsUpTo(ClusterNamespaces, MaxNamespaces) : NoRepeat(l)}

\* what the user types
Queries ==
    {<<>>,
     <<"R", "O", "D">>,
     <<"e">>,
     <<"S", "y", "s">>,
     <<"d", "e", "f", "a", "u", "l", "t">>,
     <<"x">>}

\* fuzzy_search_namespaces with the query compared as typed, not lower-cased
fuzzy_search_case_sensitive(list, query) ==
    IF query = <<>> THEN list
    ELSE SelectSeq(list, LAMBDA ns : In(query, Lower(ns)))

\* fuzzy_search_namespaces
fuzzy_search_namespaces(list, query) ==
    IF query = <<>> THEN list
    ELSE SelectSeq(list, LAMBDA ns : In(Lower(query), Lower(ns)))

InitFilter ==
    /\ DashboardInit
    /\ namespace_list \in FetchedNamespaceLists
    /\ search \in Queries
    /\ found = <<>>
    /\ status_pod = None
    /\ status_out = NoStatus
    /\ raw_log = <<>>

\* a call of fuzzy_search_namespaces with the query
FuzzySearch ==
    /\ last_op = None
    /\ found' = fuzzy_search_namespaces(namespace_list, search)
    /\ last_op' = "fuzzy_search_namespaces"
    /\ UNCHANGED <<dashboardVars, statusVars, raw_log, search>>

NextFilter == FuzzySearch

SpecFilter == InitFilter /\ [][NextFilter]_vars

\* the positions of the fetched list whose name holds the query, case ignored
Matching ==
    {i \in 1..Len(namespace_list) :
        search = <<>> \/ OccursIgnoringCase(search, namespace_list[i])}

\* C10: the filter returns exactly the fetched names that hold the query as a
\* case-insensitive substring, each once and in fetch order; the empty query returns
\* the fetched list as it is.
C10_FilterKeepsMatchesInFetchOrder ==
    last_op = "fuzzy_search_namespaces" =>
        /\ Len(found) = Cardinality(Matching)
        /\ \A i \in Matching :
               found[Cardinality({j \in Matching : j <= i})] = namespace_list[i]
        /\ search = <<>> => found = namespace_list

\* C10 witness: an upper-case query that one name of an unsorted list of three holds.
C10_Witness ==
    /\ last_op = "fuzzy_search_namespaces"
    /\ namespace_list = <<NsProdEu, NsKubeSystem, NsDefault>>
    /\ search = <<"R", "O", "D">>
    /\ found = <<NsProdEu>>

---------------------------------------------------------------------------
(* _refresh_namespaces, applied to every stored namespace list and every response *)

\* a response of list_namespace to a later call: any list of the cluster, or ApiException
LaterNamespaceResponses ==
    {[ok |-> TRUE, items |-> l] : l \in FetchedNamespaceLists}
        \cup {[ok |-> FALSE, items |-> <<>>]}

\* the client after __init__, holding any list it can have fetched
InitNamespaces ==
    /\ DashboardInit
    /\ namespace_list \in FetchedNamespaceLists
    /\ status_pod = None
    /\ status_out = NoStatus
    /\ raw_log = <<>>
    /\ search = <<>>
    /\ found = <<>>

\* _refresh_namespaces that empties the stored list before it raises again
refresh_namespaces_clearing(resp) ==
    /\ IF resp.ok
       THEN /\ namespace_list' = resp.items
            /\ fault' = None
       ELSE /\ namespace_list' = <<>>
            /\ fault' = ApiException
    /\ last_op' = "_refresh_namespaces"
    /\ calls' = {Call("list_namespace", None, None)}
    /\ UNCHANGED <<namespace, appVars, panelVars, shellVars, recomputed, pureVars>>

\* _refresh_namespaces: the list fetched is stored; on ApiException the error is logged
\* and raised again, the assignment of line 45 not having run
refresh_namespaces(resp) ==
    /\ IF resp.ok
       THEN /\ namespace_list' = resp.items
            /\ fault' = None
       ELSE /\ namespace_list' = namespace_list
            /\ fault' = ApiException
    /\ last_op' = "_refresh_namespaces"
    /\ calls' = {Call("list_namespace", None, None)}
    /\ UNCHANGED <<namespace, appVars, panelVars, shellVars, recomputed, pureVars>>

NextNamespaces == \E resp \in LaterNamespaceResponses : refresh_namespaces(resp)

SpecNamespaces == InitNamespaces /\ [][NextNamespaces]_vars

\* C17: a call of _refresh_namespaces that fails leaves the stored namespace list as
\* it was.
C17_FailedFetchKeepsList ==
    [][fault' = ApiException => namespace_list' = namespace_list]_vars

\* C17 witness: a fetch has failed and the client still holds a list of three names.
C17_Witness ==
    /\ last_op = "_refresh_namespaces"
    /\ fault = ApiException
    /\ Len(namespace_list) = 3

---------------------------------------------------------------------------
(* Properties of the dashboard, checked under Spec *)

PodNamed(name) == {i \in 1..Len(pods) : pods[i].name = name}

\* C1: whenever a pod is selected, the pod list fetched last holds a pod of that name,
\* and whenever a container is selected, it is one of that pod's containers.
C1_SelectionInCachedPods ==
    /\ selected_pod # NonePod => PodNamed(selected_pod.name) # {}
    /\ selected_container # None =>
           \E i \in PodNamed(selected_pod.name) :
               selected_container \in Range(pods[i].containers)

\* C2: right after set_namespace the cached pod list is empty and neither a pod nor a
\* container is selected.
C2_SetNamespaceClears ==
    last_op = "set_namespace" =>
        /\ pods = <<>>
        /\ selected_pod = NonePod
        /\ selected_container = None

\* C3: the cached pod list was fetched for the namespace that is current.
C3_CachedPodsOfCurrentNamespace ==
    pods_ns \in {NoNamespace, namespace}

\* C4: every handler that has run recomputed at least the panels of its row of the
\* dependency table: a namespace change all four, a refresh the pods, a pod selection
\* containers, info and logs, a container selection the logs.
C4_DependencyTable ==
    pc = "idle" =>
        /\ last_op \in {"change_namespace", "set_namespace"} => Panels \subseteq recomputed
        /\ last_op = "refresh" => "pods" \in recomputed
        /\ last_op = "select_pod" => {"containers", "info", "logs"} \subseteq recomputed
        /\ last_op = "select_container" => "logs" \in recomputed

\* C5: from the moment the shell is opened until it has exited no panel is recomputed,
\* and when action_open_shell has returned, whatever the shells did, the pod list, the
\* info panel and the logs panel have been recomputed.
C5_ShellSuspendsThenRefreshes ==
    /\ pc \in {"shell", "shell_exited"} => last_op = "open_shell" /\ recomputed = {}
    /\ pc = "idle" /\ last_op = "open_shell" => {"pods", "info", "logs"} \subseteq recomputed

\* C5 witness: the dashboard is back from a shell and shows the selected pod afresh.
C5_Witness ==
    /\ pc = "idle"
    /\ last_op = "open_shell"
    /\ selected_pod # NonePod
    /\ recomputed = {"pods", "info", "logs"}

\* C6: the loop goes on to a later candidate only when the candidate before it could
\* not be started; a shell that started and exited, with any code, ends the loop.
C6_StartedShellEndsLoop ==
    pc = "shell" /\ shell_index >= 1 => ~shell_result.started

\* C7: no failure of a gateway call leaves the wrapper as a raised exception.
C7_GatewayFailuresCaught ==
    fault = None

\* C11: in every state, and so after every refresh of the pod list, no container is
\* selected while no pod is selected.
C11_NoContainerWithoutPod ==
    selected_pod = NonePod => selected_container = None

\* C11 witness: the pod list has been refreshed to a non-empty list with no pod
\* selected, and no container is selected.
C11_Witness ==
    /\ pc = "idle"
    /\ last_op = "refresh"
    /\ pods # <<>>
    /\ selected_pod = NonePod
    /\ selected_container = None

\* C12: the current namespace is one of the namespaces fetched last, or it is
\* "default" when the fetched list is empty or nothing has been fetched.
C12_NamespaceInFetchedList ==
    IF namespace_list = <<>>
    THEN namespace = NsDefault
    ELSE namespace \in Range(namespace_list)

\* C15: when a handler has refreshed the pod list, the pod list view shows the pods
\* fetched, and the info panel and the container list of the selected pod are those of
\* the record the fetched list holds for that pod.
C15_PanelsFromLatestFetch ==
    pc = "idle" /\ "pods" \in recomputed =>
        /\ pods_list = PodItems(pods)
        /\ \A i \in PodNamed(selected_pod.name) :
               /\ info_panel = [title |-> pods[i].name, containers |-> pods[i].containers]
               /\ Len(containers_list) = Len(pods[i].containers)
               /\ \A k \in 1..Len(containers_list) :
                      containers_list[k].container_name = pods[i].containers[k]

\* the text a failed get_pod_logs returns starts with "Error: "; no log text does
RetrievalFailedShown ==
    /\ logs_panel # <<>>
    /\ Len(logs_panel[1].text) >= Len(ErrorPrefix)
    /\ SubSeq(logs_panel[1].text, 1, Len(ErrorPrefix)) = ErrorPrefix

\* C16: when the retrieval of the logs has failed, the logs panel holds exactly one
\* line, the error line, and no exception has left the wrapper.
C16_OneErrorLine ==
    pc = "idle" /\ RetrievalFailedShown =>
        /\ Len(logs_panel) = 1
        /\ fault = None

\* the lines on the suspended screen that are neither the opening line nor the prompt
FailureReports ==
    {i \in 1..Len(terminal) : terminal[i] \notin {MsgOpeningShell, MsgPressEnter}}

\* C18: no step of action_open_shell changes the selected pod or the selected
\* container, and when the loop has ended without any shell having started, the user
\* has been told so exactly once.
C18_ShellKeepsSelectionAndReports ==
    [][/\ last_op' = "open_shell" =>
              selected_pod' = selected_pod /\ selected_container' = selected_container
       /\ pc' = "shell_exited" /\ ~shell_started' => Cardinality(FailureReports') = 1]_vars

\* the gateway calls of the last handler that fetch logs
LogCalls == {c \in calls : c.fn = "get_pod_logs"}

\* what a presentation of fetched logs can leave in the panel
FreshLogPanels == {WriteLogs(get_pod_logs(resp)) : resp \in LogResponses}

\* C19: when the last handler has presented the logs and no container can be
\* resolved (no pod selected, or the selected pod has no container), the panel holds
\* one informational line and no log was fetched; and every presentation leaves
\* exactly the lines of that presentation in the panel.
C19_SyntheticLineWithoutGatewayCall ==
    pc = "idle" /\ "logs" \in recomputed =>
        IF selected_pod = NonePod
        THEN logs_panel = <<[style |-> "dim", text |-> MsgNoPodSelected]>> /\ LogCalls = {}
        ELSE IF selected_pod.containers = <<>>
        THEN logs_panel = <<[style |-> "dim", text |-> MsgNoContainers]>> /\ LogCalls = {}
        ELSE logs_panel \in FreshLogPanels /\ Cardinality(LogCalls) = 1

\* C19 witness: the pod without containers is selected and a refresh has presented
\* its logs once more: one line, no log fetched.
C19_Witness ==
    /\ pc = "idle"
    /\ last_op = "refresh"
    /\ selected_pod = [name |-> "db-0", containers |-> <<>>]
    /\ Len(logs_panel) = 1
    /\ LogCalls = {}

\* C20: a pod selection leaves a pod of the list selected and no container selected,
\* whatever was selected before; and only a container selection sets the selected
\* container.
C20_PodSelectionClearsContainer ==
    [][/\ last_op' = "select_pod" =>
              /\ selected_pod' \in Range(pods)
              /\ selected_container' = None
       /\ selected_container' # selected_container /\ selected_container' # None =>
              last_op' = "select_container"]_vars

\* C20 witness: a pod with two containers has just been selected and no container is.
C20_Witness ==
    /\ last_op = "select_pod"
    /\ Len(selected_pod.containers) = 2
    /\ selected_container = None
    /\ Len(containers_list) = 2

\* the container the claim resolves for the selection: the selected one, else the
\* first the selected pod declares
ResolvedContainer ==
    IF selected_container # None THEN selected_container ELSE selected_pod.containers[1]

\* C21: every log fetch of a handler and every shell it opens is aimed at the
\* selected pod and at the selected container or, when none is selected, at the pod's
\* first declared container; and no handler but the container selection writes a
\* container into the selection, so the resolved default is never stored.
C21_DefaultContainerNotStored ==
    [][/\ \A c \in LogCalls' :
              c.pod = selected_pod'.name /\ c.container = ResolvedContainer'
       /\ pc' \in {"shell", "shell_exited"} =>
              /\ shell_target'.pod = selected_pod'.name
              /\ shell_target'.container = ResolvedContainer'
       /\ last_op' # "select_container" =>
              selected_container' \in {selected_container, None}]_vars

\* C21 witness: back from a shell opened with no container selected, the logs of the
\* first of the pod's two containers have been fetched and still no container is
\* selected.
C21_Witness ==
    /\ pc = "idle"
    /\ last_op = "open_shell"
    /\ selected_container = None
    /\ Len(selected_pod.containers) = 2
    /\ LogCalls = {Call("get_pod_logs", selected_pod.name, selected_pod.containers[1])}

====
